---- MODULE Spec2Model ----
(***************************************************************************)
(* Model of the Student record of lab6a.py (base variant) and of           *)
(* lab6a_advanced.py (validating variant: StudentMeta instance tracking,   *)
(* lru_cache'd displayGPA, ScholarshipStudent, per-instance lock).         *)
(*                                                                         *)
(* Python values are tagged records [t, s, n]: a str carries its text in   *)
(* s, an int its value in n, a float its value in HALF grade points in n   *)
(* (n = 7 is the float 3.5).  All floats of the model are multiples of     *)
(* 0.5, so sums are exact, and for fewer than ten courses the correctly    *)
(* rounded quotient sum/len formats like the exact rational does.          *)
(***************************************************************************)
EXTENDS Integers, Sequences, FiniteSets, TLC

VARIABLES program,    \* which script runs: "lab6a" or "lab6a_advanced"
          heap,       \* object id -> Student object, or NoObject
          instances,  \* StudentMeta._instances: list of finalize objects
          held,       \* ids of the objects the program still references
          cache,      \* entries of the lru_cache wrapped around displayGPA
          firstAdded, \* history: per object, course keys in order of first add
          built,      \* history: per object, the name and number it was built from
          ret,        \* outcome of the last call
          lock,       \* thread inside "with self._lock" ("" = none)
          pc,         \* per thread: position in its current call
          loc,        \* per thread: local variables of its current call
          ncalls      \* addGrade calls the writer threads have started

vars == <<program, heap, instances, held, cache, firstAdded, built, ret, lock, pc,
          loc, ncalls>>

-----------------------------------------------------------------------------
(* Bounds *)

MaxCourses == 2   \* most keys a courses mapping holds
MaxObjects == 2   \* most Student objects built in the pair scenario
MaxWrites == 3    \* addGrade calls the writer threads make in the threaded scenario

ObjectIds == 1..MaxObjects

-----------------------------------------------------------------------------
(* Python values *)

PyStr(text) == [t |-> "str", s |-> text, n |-> 0]
PyInt(i) == [t |-> "int", s |-> "", n |-> i]
PyFloat(halves) == [t |-> "float", s |-> "", n |-> halves]
PyNone == [t |-> "None", s |-> "", n |-> 0]

IsNumber(v) == v.t \in {"int", "float"}

\* numeric value of an int or float, in half points
Halves(v) == IF v.t = "int" THEN 2 * v.n ELSE v.n

RECURSIVE Pow10(_)
Pow10(d) == IF d = 0 THEN 1 ELSE 10 * Pow10(d - 1)

Abs(x) == IF x < 0 THEN 0 - x ELSE x

\* str(number) of an int or of a str (a str is returned as it is)
PyStrOf(v) ==
    IF v.t = "str" THEN v.s
    ELSE IF v.n < 0 THEN "-" \o ToString(0 - v.n) ELSE ToString(v.n)

RECURSIVE ZeroPad(_, _)
\* the decimal digits of k, left-padded with zeros to width w
ZeroPad(k, w) ==
    IF w = 0 THEN ""
    ELSE ZeroPad(k \div 10, w - 1) \o ToString(k % 10)

\* format(num/den, ".<d>f"): round half to even at d decimals, den > 0
FormatFixed(num, den, d) ==
    LET a == Abs(num) * Pow10(d)
        q == a \div den
        r == a % den
        rounded == IF 2 * r > den THEN q + 1
                   ELSE IF 2 * r < den THEN q
                   ELSE IF q % 2 = 0 THEN q ELSE q + 1
    IN  (IF num < 0 THEN "-" ELSE "")
           \o ToString(rounded \div Pow10(d)) \o "." \o ZeroPad(rounded % Pow10(d), d)

RECURSIVE LastToken(_)
\* text.split()[-1] for a text that does not end in whitespace
LastToken(text) ==
    IF Len(text) = 0 THEN ""
    ELSE IF SubSeq(text, Len(text), Len(text)) = " " THEN ""
    ELSE LastToken(SubSeq(text, 1, Len(text) - 1)) \o SubSeq(text, Len(text), Len(text))

DigitVal(c) == CHOOSE k \in 0..9 : ToString(k) = c

RECURSIVE ParseDigits(_)
ParseDigits(text) ==
    IF Len(text) = 0 THEN 0
    ELSE 10 * ParseDigits(SubSeq(text, 1, Len(text) - 1))
           + DigitVal(SubSeq(text, Len(text), Len(text)))

RECURSIVE DotIndex(_)
\* index of the last "." of text, 0 when there is none
DotIndex(text) ==
    IF Len(text) = 0 THEN 0
    ELSE IF SubSeq(text, Len(text), Len(text)) = "." THEN Len(text)
    ELSE DotIndex(SubSeq(text, 1, Len(text) - 1))

\* float(text) for a fixed-point decimal text, as the fraction num/den
ParseFloat(text) ==
    LET neg == Len(text) > 0 /\ SubSeq(text, 1, 1) = "-"
        body == IF neg THEN SubSeq(text, 2, Len(text)) ELSE text
        dot == DotIndex(body)
        ip == IF dot = 0 THEN body ELSE SubSeq(body, 1, dot - 1)
        fp == IF dot = 0 THEN "" ELSE SubSeq(body, dot + 1, Len(body))
        mag == ParseDigits(ip) * Pow10(Len(fp)) + ParseDigits(fp)
    IN  [num |-> IF neg THEN 0 - mag ELSE mag, den |-> Pow10(Len(fp))]

-----------------------------------------------------------------------------
(* OrderedDict: a sequence of [key, value] entries in insertion order *)

EmptyDict == << >>

Keys(od) == [i \in 1..Len(od) |-> od[i].key]

HasKey(od, k) == \E i \in 1..Len(od) : od[i].key = k

IndexOf(od, k) == CHOOSE i \in 1..Len(od) : od[i].key = k

GetItem(od, k) == od[IndexOf(od, k)].value

\* a mapping whose store moves a present key to the end (delete, then insert)
SetItem_moving(od, k, v) ==
    Append(SelectSeq(od, LAMBDA e : e.key /= k), [key |-> k, value |-> v])

\* od[k] = v: a present key keeps its position, a new key goes last
SetItem(od, k, v) ==
    IF HasKey(od, k)
    THEN [od EXCEPT ![IndexOf(od, k)].value = v]
    ELSE Append(od, [key |-> k, value |-> v])

RECURSIVE SumValues(_)
\* sum(od.values()), in half points
SumValues(od) ==
    IF Len(od) = 0 THEN 0 ELSE Halves(od[1].value) + SumValues(Tail(od))


\* the entries whose grade is > 0.0, in the mapping's order
PassedEntries(od) == SelectSeq(od, LAMBDA e : Halves(e.value) > 0)

RECURSIVE InsertByKey(_, _)
\* puts p after every element of the sorted sequence whose key is <= p's
InsertByKey(sorted, p) ==
    IF Len(sorted) = 0 THEN <<p>>
    ELSE IF sorted[Len(sorted)].k <= p.k THEN Append(sorted, p)
    ELSE Append(InsertByKey(SubSeq(sorted, 1, Len(sorted) - 1), p), sorted[Len(sorted)])

RECURSIVE StableSort(_)
\* list.sort on [item, k] pairs: ascending by k, equal keys keep their order
StableSort(pairs) ==
    IF Len(pairs) = 0 THEN << >>
    ELSE InsertByKey(StableSort(SubSeq(pairs, 1, Len(pairs) - 1)), pairs[Len(pairs)])

Items(pairs) == [i \in 1..Len(pairs) |-> pairs[i].item]

-----------------------------------------------------------------------------
(* Objects *)

NoObject == [cls |-> "none", name |-> PyNone, number |-> "", courses |-> EmptyDict,
             amount |-> 0]

Allocated(o) == heap[o] /= NoObject

NoExc == ""

\* ---- lab6a.py ----

lab6a_init(name, number) ==
    [cls |-> "lab6a.Student", name |-> name, number |-> PyStrOf(number),
     courses |-> EmptyDict, amount |-> 0]

lab6a_addGrade(self, course, grade) ==
    [self EXCEPT !.courses = SetItem(self.courses, course, grade)]

lab6a_displayGPA(self) ==
    IF Len(self.courses) = 0
    THEN "GPA of student " \o PyStrOf(self.name) \o " is 0.0"
    ELSE "GPA of student " \o PyStrOf(self.name) \o " is "
            \o FormatFixed(SumValues(self.courses), 2 * Len(self.courses), 1)

\* a filter that lets the grade 0.0 through
lab6a_displayCourses_ge(self) ==
    Keys(SelectSeq(self.courses, LAMBDA e : Halves(e.value) >= 0))

lab6a_displayCourses(self) == Keys(PassedEntries(self.courses))

\* ---- lab6a_advanced.py ----

\* Student defines __eq__ and no __hash__, so __hash__ is None for it and
\* for its subclass; lab6a.Student keeps object.__hash__
Hashable(cls) == cls = "lab6a.Student"

\* Student declares __slots__ without "__weakref__"; ScholarshipStudent
\* declares no __slots__ and so gets __dict__ and __weakref__
WeakReferenceable(cls) == cls /= "Student"

\* Student.__init__: [exc, obj]
Student_init(cls, name, number) ==
    IF name.t /= "str" THEN [exc |-> "TypeError", obj |-> NoObject]
    ELSE IF number.t \notin {"int", "str"} THEN [exc |-> "TypeError", obj |-> NoObject]
    ELSE [exc |-> NoExc,
          obj |-> [cls |-> cls, name |-> name, number |-> PyStrOf(number),
                   courses |-> EmptyDict, amount |-> 0]]

\* ScholarshipStudent.__init__: [exc, obj]
ScholarshipStudent_init(name, number, scholarship_amount) ==
    LET base == Student_init("ScholarshipStudent", name, number)
    IN  IF base.exc /= NoExc THEN base
        ELSE IF scholarship_amount < 0 THEN [exc |-> "ValueError", obj |-> NoObject]
        ELSE [exc |-> NoExc, obj |-> [base.obj EXCEPT !.amount = scholarship_amount]]

\* checks that take the upper limit of the grade off by one half point
addGrade_check_loose(course, grade) ==
    IF course.t /= "str" \/ Len(course.s) < 3 THEN "InvalidCourseError"
    ELSE IF ~IsNumber(grade) \/ ~(0 <= Halves(grade) /\ Halves(grade) <= 9)
         THEN "InvalidGradeError"
    ELSE NoExc

\* Student.addGrade up to the locked store: the exception it raises, if any
addGrade_check(course, grade) ==
    IF course.t /= "str" \/ Len(course.s) < 3 THEN "InvalidCourseError"
    ELSE IF ~IsNumber(grade) \/ ~(0 <= Halves(grade) /\ Halves(grade) <= 8)
         THEN "InvalidGradeError"
    ELSE NoExc

\* Student.addGrade: [exc, obj]
addGrade(self, course, grade) ==
    LET exc == addGrade_check(course, grade)
    IN  IF exc /= NoExc THEN [exc |-> exc, obj |-> self]
        ELSE [exc |-> NoExc,
              obj |-> [self EXCEPT !.courses = SetItem(self.courses, course, grade)]]

\* the body of Student.displayGPA, below the lru_cache wrapper
displayGPA_body(self) ==
    IF Len(self.courses) = 0
    THEN "GPA of student " \o PyStrOf(self.name) \o " is 0.0"
    ELSE "GPA of student " \o PyStrOf(self.name) \o " is "
            \o FormatFixed(SumValues(self.courses), 2 * Len(self.courses), 2)

CacheHit(c, o) == \E i \in 1..Len(c) : c[i].key = o

CacheGet(c, o) == c[CHOOSE i \in 1..Len(c) : c[i].key = o].value

\* lru_cache(maxsize=10) around displayGPA, called on object o:
\* [exc, text, cache].  The key (self,) is hashed before any lookup.
displayGPA(c, o, self) ==
    IF ~Hashable(self.cls) THEN [exc |-> "TypeError", text |-> "", cache |-> c]
    ELSE IF CacheHit(c, o) THEN [exc |-> NoExc, text |-> CacheGet(c, o), cache |-> c]
    ELSE [exc |-> NoExc, text |-> displayGPA_body(self),
          cache |-> Append(IF Len(c) < 10 THEN c ELSE Tail(c),
                           [key |-> o, value |-> displayGPA_body(self)])]

\* Student.displayCourses: passed courses by descending grade
displayCourses(self) ==
    LET passed == Keys(PassedEntries(self.courses))
    IN  Items(StableSort([i \in 1..Len(passed) |->
                [item |-> passed[i], k |-> 0 - Halves(GetItem(self.courses, passed[i]))]]))

\* float(text.split()[-1]) of a displayGPA text, as a fraction
ParsedGPA(text) == ParseFloat(LastToken(text))

\* Student.__lt__: [exc, flag]
Student_lt(c, a, b) ==
    LET ga == displayGPA(c, a, heap[a])
        gb == displayGPA(ga.cache, b, heap[b])
    IN  IF ga.exc /= NoExc THEN [exc |-> ga.exc, flag |-> FALSE, cache |-> ga.cache]
        ELSE IF gb.exc /= NoExc THEN [exc |-> gb.exc, flag |-> FALSE, cache |-> gb.cache]
        ELSE [exc |-> NoExc, cache |-> gb.cache,
              flag |-> ParsedGPA(ga.text).num * ParsedGPA(gb.text).den
                          < ParsedGPA(gb.text).num * ParsedGPA(ga.text).den]

\* an equality that looks at the name alone
Student_eq_name(self, other) == self.name = other.name

\* Student.__eq__
Student_eq(self, other) == self.name = other.name /\ self.number = other.number

\* ScholarshipStudent.isEligible: [exc, flag, cache]
isEligible(c, o) ==
    LET g == displayGPA(c, o, heap[o])
    IN  IF g.exc /= NoExc THEN [exc |-> g.exc, flag |-> FALSE, cache |-> g.cache]
        ELSE [exc |-> NoExc, cache |-> g.cache,
              flag |-> 2 * ParsedGPA(g.text).num > 7 * ParsedGPA(g.text).den]

\* StudentMeta.count_instances
count_instances == Len(instances)

\* Student.totalStudents
totalStudents == count_instances


\* StudentMeta.__call__ building object o: [exc, obj, instances].  The
\* finalize object keeps the instance in its args, a strong reference.
StudentMeta_call(insts, o, cls, name, number, scholarship_amount) ==
    LET r == IF cls = "ScholarshipStudent"
             THEN ScholarshipStudent_init(name, number, scholarship_amount)
             ELSE Student_init(cls, name, number)
    IN  IF r.exc /= NoExc THEN [exc |-> r.exc, obj |-> NoObject, instances |-> insts]
        ELSE IF ~WeakReferenceable(cls)
             THEN [exc |-> "TypeError", obj |-> NoObject, instances |-> insts]
        ELSE [exc |-> NoExc, obj |-> r.obj, instances |-> Append(insts, [obj |-> o])]

\* an object is freed once neither the program nor a finalize object refers to it
Referenced(h, insts, o) == o \in h \/ \E i \in 1..Len(insts) : insts[i].obj = o

-----------------------------------------------------------------------------
(* Inputs *)

\* the students of the scripts' __main__ blocks
Students == {[name |-> PyStr("John"), number |-> PyStr("013454900")],
             [name |-> PyStr("Jessica"), number |-> PyInt(123456)]}
Amounts == {5000, -1}

GoodCourses == {PyStr("ops445"), PyStr("ops245"), PyStr("uli101")}
BadCourses == {PyStr("ab"), PyInt(445)}
GoodGrades == {PyFloat(0), PyFloat(2), PyFloat(7), PyFloat(8)}
BadGrades == {PyFloat(-1), PyFloat(9), PyStr("A")}
Lab6aCourses == {PyStr("ops445"), PyStr("uli101"), PyStr("ab")}
Lab6aGrades == {PyFloat(-1), PyFloat(0), PyFloat(2), PyFloat(7), PyFloat(8)}

PairNames == {PyStr("John"), PyStr("Jessica"), PyInt(5)}
PairNumbers == {PyInt(7), PyStr("7"), PyStr("07"), PyFloat(3)}
PairCourses == {PyStr("ops445")}
PairGrades == {PyFloat(8)}

-----------------------------------------------------------------------------
(* Calls of the sequential scripts *)

NoRet == [op |-> "", self |-> 0, other |-> 0, course |-> PyNone, grade |-> PyNone,
          exc |-> NoExc, text |-> "", list |-> << >>, flag |-> FALSE, num |-> 0]

NoThreads == UNCHANGED <<lock, pc, loc, ncalls>>

NoArgs == [name |-> PyNone, number |-> PyNone]

NoBuilt == [o \in ObjectIds |-> NoArgs]

\* the mapping is kept within MaxCourses keys
Fits(o, course) == HasKey(heap[o].courses, course) \/ Len(heap[o].courses) < MaxCourses

NoteFirstAdd(o, course) ==
    IF \E i \in 1..Len(firstAdded[o]) : firstAdded[o][i] = course
    THEN firstAdded
    ELSE [firstAdded EXCEPT ![o] = Append(@, course)]

\* lab6a: student.addGrade(course, grade)
Lab6aAddGrade(o, course, grade) ==
    /\ program = "lab6a" /\ o \in held /\ Fits(o, course)
    /\ heap' = [heap EXCEPT ![o] = lab6a_addGrade(heap[o], course, grade)]
    /\ firstAdded' = NoteFirstAdd(o, course)
    /\ ret' = [NoRet EXCEPT !.op = "addGrade", !.self = o, !.course = course,
                            !.grade = grade]
    /\ UNCHANGED <<program, instances, held, cache, built>> /\ NoThreads

\* lab6a: student.displayGPA()
Lab6aDisplayGPA(o) ==
    /\ program = "lab6a" /\ o \in held
    /\ ret' = [NoRet EXCEPT !.op = "displayGPA", !.self = o,
                            !.text = lab6a_displayGPA(heap[o])]
    /\ UNCHANGED <<program, heap, instances, held, cache, firstAdded, built>> /\ NoThreads

\* lab6a: student.displayCourses()
Lab6aDisplayCourses(o) ==
    /\ program = "lab6a" /\ o \in held
    /\ ret' = [NoRet EXCEPT !.op = "displayCourses", !.self = o,
                            !.list = lab6a_displayCourses(heap[o])]
    /\ UNCHANGED <<program, heap, instances, held, cache, firstAdded, built>> /\ NoThreads

\* lab6a_advanced: student.addGrade(course, grade), no other thread running
AddGrade(o, course, grade) ==
    /\ program = "lab6a_advanced" /\ o \in held
    /\ addGrade_check(course, grade) = NoExc => Fits(o, course)
    /\ LET r == addGrade(heap[o], course, grade)
       IN  /\ heap' = [heap EXCEPT ![o] = r.obj]
           /\ firstAdded' = IF r.exc = NoExc THEN NoteFirstAdd(o, course) ELSE firstAdded
           /\ ret' = [NoRet EXCEPT !.op = "addGrade", !.self = o, !.course = course,
                                   !.grade = grade, !.exc = r.exc]
    /\ UNCHANGED <<program, instances, held, cache, built>> /\ NoThreads

\* lab6a_advanced: student.displayGPA()
DisplayGPA(o) ==
    /\ program = "lab6a_advanced" /\ o \in held
    /\ LET r == displayGPA(cache, o, heap[o])
       IN  /\ cache' = r.cache
           /\ ret' = [NoRet EXCEPT !.op = "displayGPA", !.self = o, !.exc = r.exc,
                                   !.text = r.text]
    /\ UNCHANGED <<program, heap, instances, held, firstAdded, built>> /\ NoThreads

\* lab6a_advanced: student.displayCourses()
DisplayCourses(o) ==
    /\ program = "lab6a_advanced" /\ o \in held
    /\ ret' = [NoRet EXCEPT !.op = "displayCourses", !.self = o,
                            !.list = displayCourses(heap[o])]
    /\ UNCHANGED <<program, heap, instances, held, cache, firstAdded, built>> /\ NoThreads

\* lab6a_advanced: student.isEligible()
IsEligible(o) ==
    /\ program = "lab6a_advanced" /\ o \in held
    /\ heap[o].cls = "ScholarshipStudent"
    /\ LET r == isEligible(cache, o)
       IN  /\ cache' = r.cache
           /\ ret' = [NoRet EXCEPT !.op = "isEligible", !.self = o, !.exc = r.exc,
                                   !.flag = r.flag]
    /\ UNCHANGED <<program, heap, instances, held, firstAdded, built>> /\ NoThreads

\* lab6a_advanced: a < b
Lt(a, b) ==
    /\ program = "lab6a_advanced" /\ a \in held /\ b \in held
    /\ LET r == Student_lt(cache, a, b)
       IN  /\ cache' = r.cache
           /\ ret' = [NoRet EXCEPT !.op = "lt", !.self = a, !.other = b, !.exc = r.exc,
                                   !.flag = r.flag]
    /\ UNCHANGED <<program, heap, instances, held, firstAdded, built>> /\ NoThreads

\* lab6a_advanced: a == b
Eq(a, b) ==
    /\ program = "lab6a_advanced" /\ a \in held /\ b \in held
    /\ ret' = [NoRet EXCEPT !.op = "eq", !.self = a, !.other = b,
                            !.flag = Student_eq(heap[a], heap[b])]
    /\ UNCHANGED <<program, heap, instances, held, cache, firstAdded, built>> /\ NoThreads

\* lab6a_advanced: variable = cls(name, number[, scholarship_amount])
Construct(cls, name, number, scholarship_amount) ==
    /\ program = "lab6a_advanced"
    /\ \E o \in ObjectIds :
          /\ ~Allocated(o)
          /\ \A p \in ObjectIds : p < o => Allocated(p)
          /\ LET r == StudentMeta_call(instances, o, cls, name, number, scholarship_amount)
             IN  /\ heap' = [heap EXCEPT ![o] = r.obj]
                 /\ instances' = r.instances
                 /\ held' = IF r.exc = NoExc THEN held \cup {o} ELSE held
                 /\ built' = IF r.exc = NoExc
                              THEN [built EXCEPT ![o] = [name |-> name, number |-> number]]
                              ELSE built
                 /\ ret' = [NoRet EXCEPT !.op = "construct", !.exc = r.exc,
                                         !.self = IF r.exc = NoExc THEN o ELSE 0]
    /\ UNCHANGED <<program, cache, firstAdded>> /\ NoThreads

\* lab6a_advanced: Student.totalStudents()
TotalStudents ==
    /\ program = "lab6a_advanced"
    /\ ret' = [NoRet EXCEPT !.op = "totalStudents", !.num = totalStudents]
    /\ UNCHANGED <<program, heap, instances, held, cache, firstAdded, built>> /\ NoThreads

\* the program gives up its last reference to object o (del, rebinding, scope
\* exit); reference counting frees the object when nothing else refers to it
Drop(o) ==
    /\ o \in held
    /\ held' = held \ {o}
    /\ heap' = IF Referenced(held', instances, o) THEN heap
               ELSE [heap EXCEPT ![o] = NoObject]
    /\ ret' = [NoRet EXCEPT !.op = "drop", !.self = o]
    /\ UNCHANGED <<program, instances, cache, firstAdded, built>> /\ NoThreads

-----------------------------------------------------------------------------
(* Spec: one student built by its script, then any calls on it *)

NoHeap == [o \in ObjectIds |-> NoObject]

NoFirstAdded == [o \in ObjectIds |-> << >>]

IdleThreads ==
    /\ lock = ""
    /\ pc = << >>
    /\ loc = << >>
    /\ ncalls = 0

InitLab6a ==
    /\ program = "lab6a"
    /\ \E st \in Students :
          /\ heap = [NoHeap EXCEPT ![1] = lab6a_init(st.name, st.number)]
          /\ built = [NoBuilt EXCEPT ![1] = st]
    /\ instances = << >>
    /\ held = {1}
    /\ ret = [NoRet EXCEPT !.op = "construct", !.self = 1]

InitAdvanced ==
    /\ program = "lab6a_advanced"
    /\ \E cls \in {"Student", "ScholarshipStudent"}, st \in Students, amount \in Amounts :
          LET r == StudentMeta_call(<< >>, 1, cls, st.name, st.number, amount)
          IN  /\ heap = [NoHeap EXCEPT ![1] = r.obj]
              /\ instances = r.instances
              /\ held = IF r.exc = NoExc THEN {1} ELSE {}
              /\ built = IF r.exc = NoExc THEN [NoBuilt EXCEPT ![1] = st] ELSE NoBuilt
              /\ ret = [NoRet EXCEPT !.op = "construct", !.exc = r.exc,
                                     !.self = IF r.exc = NoExc THEN 1 ELSE 0]

Init ==
    /\ InitLab6a \/ InitAdvanced
    /\ cache = << >>
    /\ firstAdded = NoFirstAdded
    /\ IdleThreads

Next ==
    \/ \E course \in Lab6aCourses, grade \in Lab6aGrades :
          Lab6aAddGrade(1, course, grade)
    \/ Lab6aDisplayGPA(1)
    \/ Lab6aDisplayCourses(1)
    \/ \E course \in GoodCourses \cup BadCourses, grade \in GoodGrades \cup BadGrades :
          AddGrade(1, course, grade)
    \/ DisplayGPA(1)
    \/ DisplayCourses(1)
    \/ IsEligible(1)

Spec == Init /\ [][Next]_vars

-----------------------------------------------------------------------------
(* SpecPair: lab6a_advanced building, comparing and dropping students *)

InitPair ==
    /\ program = "lab6a_advanced"
    /\ heap = NoHeap
    /\ instances = << >>
    /\ held = {}
    /\ built = NoBuilt
    /\ ret = NoRet
    /\ cache = << >>
    /\ firstAdded = NoFirstAdded
    /\ IdleThreads

NextPair ==
    \/ \E cls \in {"Student", "ScholarshipStudent"}, name \in PairNames,
          number \in PairNumbers, amount \in Amounts :
          Construct(cls, name, number, amount)
    \/ \E o \in ObjectIds, course \in PairCourses, grade \in PairGrades :
          AddGrade(o, course, grade)
    \/ \E a, b \in ObjectIds : Eq(a, b)
    \/ \E a, b \in ObjectIds : Lt(a, b)
    \/ TotalStudents
    \/ \E o \in ObjectIds : Drop(o)

SpecPair == InitPair /\ [][NextPair]_vars


-----------------------------------------------------------------------------
(* SpecConc: lab6a_advanced, writer threads calling addGrade and a reader   *)
(* thread calling displayCourses / displayGPA on one shared instance.  A    *)
(* thread can be switched out between any two bytecodes, so every read of   *)
(* self._courses by Python code is a step of its own.                       *)

Writers == {"w1", "w2"}
Reader == "r"
Threads == Writers \cup {Reader}

ConcCourses == {PyStr("ops445"), PyStr("uli101")}
ConcGrades == {PyFloat(0), PyFloat(4), PyFloat(9)}

\* locals of a call: the arguments of addGrade; of displayCourses the items
\* iterator (cur: index of its next node, 0 when exhausted; size: len at its
\* creation), the filtered list, the sort keys computed so far, and the
\* history of the mappings that existed while the call ran
NoLocals == [course |-> PyNone, grade |-> PyNone, cur |-> 0, size |-> 0,
             list |-> << >>, keys |-> << >>, seen |-> {}]

Shared == heap[1]

SeqOnly == UNCHANGED <<program, instances, held, cache, firstAdded, built>>

\* addGrade, lines 82-85: the checks read no shared state
WCall(t, course, grade) ==
    /\ pc[t] = "idle" /\ ncalls < MaxWrites
    /\ ncalls' = ncalls + 1
    /\ IF addGrade_check(course, grade) /= NoExc
       THEN UNCHANGED <<pc, loc>>
       ELSE /\ pc' = [pc EXCEPT ![t] = "acquire"]
            /\ loc' = [loc EXCEPT ![t] = [NoLocals EXCEPT !.course = course,
                                                          !.grade = grade]]
    /\ UNCHANGED <<heap, ret, lock>> /\ SeqOnly

\* with self._lock: (enter)
WAcquire(t) ==
    /\ pc[t] = "acquire" /\ lock = ""
    /\ lock' = t
    /\ pc' = [pc EXCEPT ![t] = "store"]
    /\ UNCHANGED <<heap, ret, loc, ncalls>> /\ SeqOnly

\* self._courses[course] = grade
WStore(t) ==
    /\ pc[t] = "store"
    /\ heap' = [heap EXCEPT ![1] = [@ EXCEPT !.courses =
                                       SetItem(@, loc[t].course, loc[t].grade)]]
    /\ pc' = [pc EXCEPT ![t] = "release"]
    /\ loc' = [loc EXCEPT ![Reader].seen =
                  IF pc[Reader] = "idle" THEN @ ELSE @ \cup {heap'[1].courses}]
    /\ UNCHANGED <<ret, lock, ncalls>> /\ SeqOnly

\* with self._lock: (exit)
WRelease(t) ==
    /\ pc[t] = "release"
    /\ lock' = ""
    /\ pc' = [pc EXCEPT ![t] = "idle"]
    /\ loc' = [loc EXCEPT ![t] = NoLocals]
    /\ UNCHANGED <<heap, ret, ncalls>> /\ SeqOnly

\* displayGPA(): the lru_cache wrapper hashes self before the body runs
RDisplayGPA ==
    /\ pc[Reader] = "idle"
    /\ LET r == displayGPA(cache, 1, Shared)
       IN  /\ cache' = r.cache
           /\ ret' = [NoRet EXCEPT !.op = "displayGPA", !.self = 1, !.exc = r.exc,
                                   !.text = r.text]
    /\ loc' = [loc EXCEPT ![Reader] = [NoLocals EXCEPT !.seen = {Shared.courses}]]
    /\ UNCHANGED <<program, heap, instances, held, firstAdded, built, lock, pc, ncalls>>

\* displayCourses(): self._courses.items() and iter() of it
RIter ==
    /\ pc[Reader] = "idle"
    /\ loc' = [loc EXCEPT ![Reader] =
                  [NoLocals EXCEPT !.cur = IF Len(Shared.courses) = 0 THEN 0 ELSE 1,
                                   !.size = Len(Shared.courses),
                                   !.seen = {Shared.courses}]]
    /\ pc' = [pc EXCEPT ![Reader] = "next"]
    /\ ret' = NoRet
    /\ UNCHANGED <<heap, lock, ncalls>> /\ SeqOnly

\* one round of the comprehension: next(iterator), then the grade > 0.0 filter
RNext ==
    /\ pc[Reader] = "next"
    /\ LET l == loc[Reader]
           od == Shared.courses
       IN  IF l.cur = 0
           THEN /\ pc' = [pc EXCEPT ![Reader] = "key"]
                /\ UNCHANGED <<loc, ret>>
           ELSE IF l.size /= Len(od)
           THEN /\ pc' = [pc EXCEPT ![Reader] = "idle"]
                /\ ret' = [NoRet EXCEPT !.op = "displayCourses", !.self = 1,
                                        !.exc = "RuntimeError"]
                /\ UNCHANGED loc
           ELSE /\ loc' = [loc EXCEPT ![Reader] =
                             [l EXCEPT !.cur = IF l.cur < Len(od) THEN l.cur + 1 ELSE 0,
                                       !.list = IF Halves(od[l.cur].value) > 0
                                                THEN Append(l.list, od[l.cur].key)
                                                ELSE l.list]]
                /\ UNCHANGED <<pc, ret>>
    /\ UNCHANGED <<heap, lock, ncalls>> /\ SeqOnly

\* sorted(): one call of the key lambda, -self._courses[x]
RKey ==
    /\ pc[Reader] = "key"
    /\ Len(loc[Reader].keys) < Len(loc[Reader].list)
    /\ LET x == loc[Reader].list[Len(loc[Reader].keys) + 1]
       IN  loc' = [loc EXCEPT ![Reader].keys =
                      Append(@, 0 - Halves(GetItem(Shared.courses, x)))]
    /\ UNCHANGED <<heap, ret, lock, pc, ncalls>> /\ SeqOnly

\* sorted(): the sort on the computed keys, and the return
RReturn ==
    /\ pc[Reader] = "key"
    /\ Len(loc[Reader].keys) = Len(loc[Reader].list)
    /\ LET l == loc[Reader]
       IN  ret' = [NoRet EXCEPT !.op = "displayCourses", !.self = 1,
                      !.list = Items(StableSort([i \in 1..Len(l.list) |->
                                        [item |-> l.list[i], k |-> l.keys[i]]]))]
    /\ pc' = [pc EXCEPT ![Reader] = "idle"]
    /\ UNCHANGED <<heap, lock, loc, ncalls>> /\ SeqOnly

InitConc ==
    /\ program = "lab6a_advanced"
    /\ LET r == StudentMeta_call(<< >>, 1, "ScholarshipStudent", PyStr("Jessica"),
                                 PyInt(123456), 5000)
       IN  /\ heap = [NoHeap EXCEPT ![1] = r.obj]
           /\ instances = r.instances
    /\ held = {1}
    /\ built = [NoBuilt EXCEPT ![1] = [name |-> PyStr("Jessica"), number |-> PyInt(123456)]]
    /\ cache = << >>
    /\ firstAdded = NoFirstAdded
    /\ ret = NoRet
    /\ lock = ""
    /\ pc = [t \in Threads |-> "idle"]
    /\ loc = [t \in Threads |-> NoLocals]
    /\ ncalls = 0

NextConc ==
    \/ \E t \in Writers, course \in ConcCourses, grade \in ConcGrades :
          WCall(t, course, grade)
    \/ \E t \in Writers : WAcquire(t)
    \/ \E t \in Writers : WStore(t)
    \/ \E t \in Writers : WRelease(t)
    \/ RDisplayGPA
    \/ RIter
    \/ RNext
    \/ RKey
    \/ RReturn

SpecConc == InitConc /\ [][NextConc]_vars


-----------------------------------------------------------------------------
(* Claims *)

Courses(o) == heap[o].courses

\* the text is "GPA of student <name> is <token>", the token a decimal with
\* d places that lies within half a unit of the last place of sum/len
IsMeanText(text, self, d) ==
    LET tok == LastToken(text)
        p == ParseFloat(tok)
        n == Len(self.courses)
    IN  /\ text = "GPA of student " \o PyStrOf(self.name) \o " is " \o tok
        /\ IF n = 0 THEN tok = "0.0"
           ELSE /\ p.den = Pow10(d)
                /\ Abs(2 * n * p.num - SumValues(self.courses) * p.den) <= n

\* C1: in both variants, every displayGPA call returns the text that reports
\* 0.0 for an empty mapping and otherwise the mean of all stored grades at
\* the variant's decimals (1 in lab6a, 2 in lab6a_advanced).
C1_DisplayGPAIsMean ==
    ret.op = "displayGPA" =>
        /\ ret.exc = NoExc
        /\ IsMeanText(ret.text, heap[ret.self], IF program = "lab6a" THEN 1 ELSE 2)

\* the lab6a half of C1 taken alone: it holds of lab6a.py
Lab6aDisplayGPAIsMean ==
    (program = "lab6a" /\ ret.op = "displayGPA") =>
        /\ ret.exc = NoExc
        /\ IsMeanText(ret.text, heap[ret.self], 1)

\* C2: in the advanced variant, every displayGPA call returns the GPA text of
\* the courses mapping as it is at the time of the call.
C2_DisplayGPAIsCurrent ==
    (program = "lab6a_advanced" /\ ret.op = "displayGPA") =>
        /\ ret.exc = NoExc
        /\ ret.text = displayGPA_body(heap[ret.self])

GradesInRange ==
    \A o \in ObjectIds : \A i \in 1..Len(Courses(o)) :
        /\ IsNumber(Courses(o)[i].value)
        /\ 0 <= Halves(Courses(o)[i].value)
        /\ Halves(Courses(o)[i].value) <= 8

C3_Step ==
    /\ (program' = "lab6a_advanced" /\ ret'.op = "addGrade") =>
          LET c == ret'.course
              g == ret'.grade
              short == c.t = "str" /\ Len(c.s) < 3
              outside == IsNumber(g) /\ (Halves(g) < 0 \/ Halves(g) > 8)
          IN  /\ short => ret'.exc = "InvalidCourseError"
              /\ (outside /\ c.t = "str" /\ ~short) => ret'.exc = "InvalidGradeError"
              /\ (short \/ outside) => ret'.exc /= NoExc
              /\ ret'.exc /= NoExc => heap' = heap
    /\ program' = "lab6a_advanced" => GradesInRange'

\* C3: in the advanced variant addGrade raises InvalidCourseError for a course
\* code of fewer than 3 characters and InvalidGradeError for a grade outside
\* [0.0, 4.0] (the course is checked first, so a call with both faults raises
\* InvalidCourseError); every rejected call leaves the courses mapping as it
\* was, and every stored grade lies in [0.0, 4.0].
C3_RejectsAndKeepsState == [][C3_Step]_vars

\* a call was rejected for its grade alone while the mapping held a course
C3_Witness ==
    /\ program = "lab6a_advanced" /\ ret.op = "addGrade"
    /\ ret.exc = "InvalidGradeError" /\ IsNumber(ret.grade)
    /\ Len(Courses(ret.self)) > 0

NoDuplicateKeys ==
    \A o \in ObjectIds : \A i, j \in 1..Len(Courses(o)) :
        Courses(o)[i].key = Courses(o)[j].key => i = j

C5_Step ==
    /\ (ret'.op = "addGrade" /\ ret'.exc = NoExc
           /\ HasKey(Courses(ret'.self), ret'.course)) =>
          LET before == Courses(ret'.self)
              after == heap'[ret'.self].courses
          IN  /\ Keys(after) = Keys(before)
              /\ GetItem(after, ret'.course) = ret'.grade
              /\ \A i \in 1..Len(before) :
                    before[i].key /= ret'.course => after[i] = before[i]
    /\ NoDuplicateKeys'

\* C5: a successful addGrade on a course code already in courses replaces
\* that course's grade and changes nothing else: the keys and their order and
\* the grades of the other courses stay; the mapping never holds a key twice.
C5_OverwriteInPlace == [][C5_Step]_vars

\* the last addGrade wrote the first of two keys: it was a re-add
C5_Witness ==
    /\ ret.op = "addGrade" /\ ret.exc = NoExc
    /\ Len(Courses(ret.self)) = 2
    /\ Courses(ret.self)[1].key = ret.course
    /\ Courses(ret.self)[1].value = ret.grade

\* C6: a displayCourses call that ran while addGrade calls ran returns the
\* result computed on one of the mappings that existed during the call, never
\* an error or a mix of two mappings.
C6_ReaderSeesSnapshot ==
    (pc[Reader] = "idle" /\ ret.op = "displayCourses") =>
        /\ ret.exc = NoExc
        /\ \E od \in loc[Reader].seen :
              ret.list = displayCourses([Shared EXCEPT !.courses = od])

\* the text s is the decimal text of the integer i >= 0
IsTextOf(text, i) ==
    /\ Len(text) >= 1
    /\ \A k \in 1..Len(text) : \E dgt \in 0..9 : SubSeq(text, k, k) = ToString(dgt)
    /\ Len(text) = 1 \/ SubSeq(text, 1, 1) /= "0"
    /\ ParseDigits(text) = i

SameIdentifier(x, y) ==
    IF x.t = "str" /\ y.t = "str" THEN x.s = y.s
    ELSE IF x.t = "int" /\ y.t = "int" THEN x.n = y.n
    ELSE IF x.t = "int" THEN IsTextOf(y.s, x.n)
    ELSE IsTextOf(x.s, y.n)

\* C7: two records compare equal exactly when they were built from the same
\* name and from identifiers with the same text (an integer counts as its
\* decimal text); the courses mappings play no part.
C7_EqualIffNameAndIdentifier ==
    ret.op = "eq" =>
        (ret.flag <=> /\ built[ret.self].name = built[ret.other].name
                      /\ SameIdentifier(built[ret.self].number, built[ret.other].number))

\* two records, one built from an integer and one from its text, with
\* different courses, compared equal
C7_Witness ==
    /\ ret.op = "eq" /\ ret.flag /\ ret.self /= ret.other
    /\ built[ret.self].number.t /= built[ret.other].number.t
    /\ Courses(ret.self) /= Courses(ret.other)

\* C8: a < b returns whether a's GPA, parsed from displayGPA, is lower than b's.
C8_LtComparesGPA ==
    ret.op = "lt" =>
        LET ga == ParsedGPA(displayGPA_body(heap[ret.self]))
            gb == ParsedGPA(displayGPA_body(heap[ret.other]))
        IN  /\ ret.exc = NoExc
            /\ ret.flag <=> ga.num * gb.den < gb.num * ga.den

\* C9: isEligible returns whether the GPA parsed from displayGPA is > 3.5; a
\* student without courses is not eligible.
C9_EligibleIffAbove ==
    ret.op = "isEligible" =>
        LET g == ParsedGPA(displayGPA_body(heap[ret.self]))
        IN  /\ ret.exc = NoExc
            /\ ret.flag <=> 2 * g.num > 7 * g.den
            /\ Len(Courses(ret.self)) = 0 => ~ret.flag

\* C10: totalStudents() equals the number of Student instances the program
\* still holds: up by one per construction, down by one per instance dropped.
C10_CountIsLive ==
    program = "lab6a_advanced" => totalStudents = Cardinality(held)

====
